---- MODULE Spec2Model ----
(***************************************************************************)
(* Model of the `rosa create service` and `rosa list services` command     *)
(* handlers (cmd/create/service/cmd.go and the list-services handler).     *)
(*                                                                         *)
(* Strings are sequences of one-character strings, so that strings.Contains*)
(* strings.TrimSuffix, strings.SplitN, len() and slicing are computed as   *)
(* the Go code computes them.  The empty Go string "" is << >>.            *)
(* One process invocation is one behaviour: Init is the state when cobra   *)
(* calls run(), flags already parsed into the package variable args.       *)
(* Infof/Debugf output is not recorded; Errorf and Warnf are.              *)
(***************************************************************************)
EXTENDS Integers, Sequences, FiniteSets, TLC

(* ------------------------------ bounds -------------------------------- *)
\* longest list a FindRoleARNs call returns
MaxARNs == 2
\* longest --clusterName value tried
MaxClusterNameLen == 16
\* highest minor version of the target cluster tried by SpecVersions
MaxMinor == 11
\* most parameters in a fetched add-on schema
MaxParams == 2
\* most records returned by ListManagedServices
MaxServices == 2

(* ------------------------- program constants -------------------------- *)
\* len(role) > 64, role[0:64]
MaxRoleNameLen == 64
\* ocm.RandomLabel(4)
LabelLen == 4
\* ocmClient.ListManagedServices(1000)
ListLimit == 1000
\* version := "4.9"
HardCodedMajor == 4
HardCodedMinor == 9

(* --------------------------- string helpers --------------------------- *)
EmptyString == << >>

\* strings.Contains(s, sub)
Contains(s, sub) ==
    \E i \in 0..(Len(s) - Len(sub)) : SubSeq(s, i + 1, i + Len(sub)) = sub

\* strings.HasSuffix(s, suffix)
HasSuffix(s, suffix) ==
    /\ Len(suffix) <= Len(s)
    /\ SubSeq(s, Len(s) - Len(suffix) + 1, Len(s)) = suffix

\* strings.TrimSuffix(s, suffix)
TrimSuffix(s, suffix) ==
    IF HasSuffix(s, suffix) THEN SubSeq(s, 1, Len(s) - Len(suffix)) ELSE s

\* index of the first occurrence of the character c in s, 0 when absent
IndexOf(s, c) ==
    IF \E i \in 1..Len(s) : s[i] = c
    THEN CHOOSE i \in 1..Len(s) : s[i] = c /\ \A j \in 1..(i - 1) : s[j] # c
    ELSE 0

\* strings.SplitN(s, "/", 2): one piece when s has no "/", else two
SplitN2(s, c) ==
    IF IndexOf(s, c) = 0 THEN << s >>
    ELSE << SubSeq(s, 1, IndexOf(s, c) - 1), SubSeq(s, IndexOf(s, c) + 1, Len(s)) >>

\* the string of n copies of the character c
Repeat(c, n) == [i \in 1..n |-> c]

\* the number of ":" separated sections arn.Parse looks at (SplitN(arn, ":", 6))
RECURSIVE CountChar(_, _)
CountChar(s, c) ==
    IF s = << >> THEN 0
    ELSE (IF Head(s) = c THEN 1 ELSE 0) + CountChar(Tail(s), c)

\* the part of s after its k-th occurrence of the character c
RECURSIVE AfterNth(_, _, _)
AfterNth(s, c, k) ==
    IF k = 0 THEN s
    ELSE AfterNth(SubSeq(s, IndexOf(s, c) + 1, Len(s)), c, k - 1)

(* ----------------------- names of pkg/aws ----------------------------- *)
ArnHead == <<"a","r","n",":","a","w","s",":","i","a","m",":",":">>
RoleSep == <<":","r","o","l","e","/">>
Dash == <<"-">>
RoleSuffix == <<"-","R","o","l","e">>

\* aws.DefaultPrefix
DefaultPrefix == <<"M","a","n","a","g","e","d","O","p","e","n","S","h","i","f","t">>

\* the keys of aws.AccountRoles
InstallerAccountRole == "installer"
SupportAccountRole == "support"
ControlPlaneAccountRole == "instance_controlplane"
WorkerAccountRole == "instance_worker"

\* aws.AccountRoles: role type -> AccountRole{Name}
AccountRoles ==
    [t \in {InstallerAccountRole, SupportAccountRole,
            ControlPlaneAccountRole, WorkerAccountRole} |->
        [Name |->
            CASE t = InstallerAccountRole -> <<"I","n","s","t","a","l","l","e","r">>
              [] t = SupportAccountRole -> <<"S","u","p","p","o","r","t">>
              [] t = ControlPlaneAccountRole ->
                     <<"C","o","n","t","r","o","l","P","l","a","n","e">>
              [] t = WorkerAccountRole -> <<"W","o","r","k","e","r">>]]

DependentRoleTypes == DOMAIN AccountRoles \ {InstallerAccountRole}

\* fmt.Sprintf("%s-%s-Role", prefix, name)
RoleNameFor(prefix, name) == prefix \o Dash \o name \o RoleSuffix

\* fmt.Sprintf("-%s-Role", name)
SuffixFor(name) == Dash \o name \o RoleSuffix

\* fmt.Sprintf("arn:aws:iam::%s:role/%s", account, role)
RoleArn(account, role) == ArnHead \o account \o RoleSep \o role

(* ------------------------- the AWS account ---------------------------- *)
\* account ids the caller's credentials can belong to
AccountIDs == { <<"1","2">>, <<"7">> }

\* prefixes under which installer roles exist in the account: the default
\* one, two of the user's, and one whose name embeds the default one
UserPrefixes == { <<"x">>, <<"y">> }
EmbeddingPrefix == <<"z">> \o DefaultPrefix

\* an installer role that is tagged as one but not named by the convention
UnconventionalRoleName == <<"q">>

\* role ARNs FindRoleARNs can return for the installer category
InstallerARNs(account) ==
    { RoleArn(account, RoleNameFor(p, AccountRoles[InstallerAccountRole].Name)) :
        p \in {DefaultPrefix, EmbeddingPrefix} \cup UserPrefixes }
      \cup { RoleArn(account, UnconventionalRoleName) }

\* role ARNs FindRoleARNs can return for a dependent category: the account
\* has them under the default prefix and under "x" only
DependentARNs(account, roleType) ==
    { RoleArn(account, RoleNameFor(p, AccountRoles[roleType].Name)) :
        p \in {DefaultPrefix, <<"x">>} }

\* all lists of at most n distinct elements of S
SeqsUpTo(S, n) ==
    { l \in UNION { [1..k -> S] : k \in 0..n } :
        \A i, j \in 1..Len(l) : l[i] = l[j] => i = j }

(* ----------------------- versions (pkg/ocm) --------------------------- *)
\* a version string "4.9" is the tuple <<4, 9>>, "4.9.1" is <<4, 9, 1>>

\* ocm.GetVersionMinor: the "major.minor" part of a version
GetVersionMinor(v) == IF Len(v) >= 2 THEN SubSeq(v, 1, 2) ELSE v

\* ocm.CheckSupportedVersion(clusterVersion, operatorVersion): an error for
\* a version that does not parse, else whether the cluster's version meets
\* the operator's minimum
CheckSupportedVersion(clusterVersion, operatorVersion) ==
    IF Len(clusterVersion) < 2 \/ Len(operatorVersion) < 2
    THEN [err |-> TRUE, isSupported |-> FALSE]
    ELSE [err |-> FALSE,
          isSupported |->
              \/ clusterVersion[1] > operatorVersion[1]
              \/ /\ clusterVersion[1] = operatorVersion[1]
                 /\ clusterVersion[2] >= operatorVersion[2]]

\* aws.CredentialRequests: the fixed required-operator set
CredentialRequests ==
    << [Name |-> <<"a","w","s","-","c","l","o","u","d","-","c","r","e","d","e","n","t","i","a","l","s">>,
        Namespace |-> <<"o","p","e","n","s","h","i","f","t","-","m","a","c","h","i","n","e","-","a","p","i">>,
        MinVersion |-> EmptyString],
       [Name |-> <<"c","l","o","u","d","-","c","r","e","d","e","n","t","i","a","l","s">>,
        Namespace |-> <<"o","p","e","n","s","h","i","f","t","-","c","l","o","u","d","-","n","e","t","w","o","r","k","-","c","o","n","f","i","g","-","c","o","n","t","r","o","l","l","e","r">>,
        MinVersion |-> <<4, 10>>],
       [Name |-> <<"i","n","s","t","a","l","l","e","r","-","c","l","o","u","d","-","c","r","e","d","e","n","t","i","a","l","s">>,
        Namespace |-> <<"o","p","e","n","s","h","i","f","t","-","i","m","a","g","e","-","r","e","g","i","s","t","r","y">>,
        MinVersion |-> EmptyString] >>

\* ocm.RandomLabel(4): the labels the random generator is let to produce
Labels == { Repeat("k", LabelLen), Repeat("z", LabelLen) }

(* ------------------------ pure functions of cmd.go -------------------- *)
\* arn.Parse of the AWS SDK: the prefix "arn:" and six ":" separated
\* sections; Resource is the sixth
ArnParse(a) ==
    IF /\ Len(a) >= 4
       /\ SubSeq(a, 1, 4) = <<"a","r","n",":">>
       /\ CountChar(a, ":") >= 5
    THEN [err |-> FALSE, Resource |-> AfterNth(a, ":", 5)]
    ELSE [err |-> TRUE, Resource |-> EmptyString]

\* getAccountRolePrefix(roleARN, role); panic is the index out of range of
\* SplitN(...)[1] for a resource without "/"
getAccountRolePrefix(roleARN, role) ==
    LET parsedARN == ArnParse(roleARN)
        pieces == SplitN2(parsedARN.Resource, "/")
    IN  IF parsedARN.err
        THEN [err |-> TRUE, panic |-> FALSE, rolePrefix |-> EmptyString]
        ELSE IF Len(pieces) < 2
        THEN [err |-> FALSE, panic |-> TRUE, rolePrefix |-> EmptyString]
        ELSE [err |-> FALSE, panic |-> FALSE,
              rolePrefix |-> TrimSuffix(pieces[2], SuffixFor(role.Name))]

\* getRolePrefix(clusterName), with the label RandomLabel(4) returned
getRolePrefix(clusterName, label) == clusterName \o Dash \o label

\* variant of getOperatorRoleArn: the cut keeps one character too few
getOperatorRoleArnCutShort(prefix, operator, creator) ==
    LET role == prefix \o Dash \o operator.Namespace \o Dash \o operator.Name
    IN  RoleArn(creator.AccountID,
                IF Len(role) > MaxRoleNameLen
                THEN SubSeq(role, 1, MaxRoleNameLen - 1)
                ELSE role)

\* getOperatorRoleArn(prefix, operator, creator)
getOperatorRoleArn(prefix, operator, creator) ==
    LET role == prefix \o Dash \o operator.Namespace \o Dash \o operator.Name
    IN  RoleArn(creator.AccountID,
                IF Len(role) > MaxRoleNameLen
                THEN SubSeq(role, 1, MaxRoleNameLen)
                ELSE role)

\* the last element of list that contains pat, or otherwise when none does
\* (the loops of lines 111-115 and 149-153)
LastContaining(list, pat, otherwise) ==
    LET hits == { i \in 1..Len(list) : Contains(list[i], pat) }
    IN  IF hits = {} THEN otherwise
        ELSE list[CHOOSE i \in hits : \A j \in hits : j <= i]

\* variant of operatorIsAppended: no version gate
operatorIsAppendedUngated(operator, ver) == TRUE

\* whether the loop of lines 196-213 appends the operator: the version gate
\* of lines 198-207
operatorIsAppended(operator, ver) ==
    \/ operator.MinVersion = EmptyString
    \/ CheckSupportedVersion(GetVersionMinor(ver), operator.MinVersion).isSupported

\* whether the version check of line 199 returns an error for the operator
operatorCheckFails(operator, ver) ==
    /\ operator.MinVersion # EmptyString
    /\ CheckSupportedVersion(GetVersionMinor(ver), operator.MinVersion).err

\* the list built by the loop of lines 194-213
RECURSIVE buildOperatorIAMRoleList(_, _, _, _)
buildOperatorIAMRoleList(operators, ver, prefix, creator) ==
    IF operators = << >> THEN << >>
    ELSE (IF operatorIsAppended(Head(operators), ver)
          THEN << [Name |-> Head(operators).Name,
                   Namespace |-> Head(operators).Namespace,
                   RoleARN |-> getOperatorRoleArn(prefix, Head(operators), creator)] >>
          ELSE << >>)
         \o buildOperatorIAMRoleList(Tail(operators), ver, prefix, creator)


(* ------------------------------ inputs -------------------------------- *)
\* values of --clusterName
ClusterNames ==
    { Repeat("c", n) : n \in {1, MaxClusterNameLen - 1, MaxClusterNameLen} }

\* values of --service
ServiceNames == { <<"s","1">> }

\* the flags init() registers on the create command
FlagNames == {"service", "clusterName"}

\* ids an add-on parameter can have
ParamIDs == {"service", "clusterName", "size"}

\* target cluster versions: run() hard-codes "4.9"
HardCodedVersion == <<HardCodedMajor, HardCodedMinor>>

\* target cluster versions tried when the hard-coded literal is varied
TargetVersions ==
    { <<HardCodedMajor, m>> : m \in HardCodedMinor..MaxMinor }
        \cup { <<HardCodedMajor, HardCodedMinor, 1>>, <<HardCodedMajor + 1, 0>> }

\* ids of the records the managed-services API can return
ServiceIDs == {"m1", "m2"}

(* ------------------------------- state -------------------------------- *)
VARIABLES
    command,              \* "create" or "list": which handler runs
    pc,                   \* position in run()
    exitStatus,           \* -1 while running, else the process exit status
    panicking,            \* a panic is unwinding run()
    account,              \* the AWS account of the caller's credentials
    version,              \* version (line 91)
    ocmClient,            \* "none", "open" or "closed"
    reported,             \* Errorf and Warnf calls of the reporter, in order
    calls,                \* AWS and remote calls made, in order, with outcome;
                          \* the argument is a string, or << roleType >>
    roleARNs,             \* result of the installer FindRoleARNs (line 102)
    roleARN, supportRoleARN, controlPlaneRoleARN, workerRoleARN,
    hasRoles, rolePrefix,
    pendingRoles,         \* role types the range of line 138 has yet to visit
    interactiveMode,      \* set by interactive.Enable()
    awsCreator,           \* result of GetCreator
    operatorRolesPrefix, operatorIAMRoleList,
    validated,            \* number of entries the loop of line 216 has passed
    addOnParameters,      \* ids of addOn.Parameters(), nil as [isNil |-> TRUE]
    args,                 \* the package variable args
    request,              \* the value sent by CreateManagedService, if any
    servicesList, table   \* list services: the records and the printed rows

vars == << command, pc, exitStatus, panicking, account, version, ocmClient, reported, calls,
           roleARNs, roleARN, supportRoleARN, controlPlaneRoleARN, workerRoleARN,
           hasRoles, rolePrefix, pendingRoles, interactiveMode, awsCreator,
           operatorRolesPrefix, operatorIAMRoleList, validated, addOnParameters,
           args, request, servicesList, table >>

roleVars == << roleARNs, roleARN, supportRoleARN, controlPlaneRoleARN,
               workerRoleARN, hasRoles, rolePrefix, pendingRoles, interactiveMode >>
operatorVars == << awsCreator, operatorRolesPrefix, operatorIAMRoleList, validated >>
listVars == << servicesList, table >>
envVars == << command, account, version >>
exitVars == << exitStatus, panicking >>

\* the zero value of a Go map (nil) and a made map
NilMap == [isNil |-> TRUE, kv |-> {}]
NoRequest == [sent |-> FALSE]

Errorf(msg, arg) == [level |-> "error", msg |-> msg, arg |-> arg]
Warnf(msg, arg) == [level |-> "warn", msg |-> msg, arg |-> arg]
Call(name, arg, ok) == [name |-> name, arg |-> arg, ok |-> ok]

\* var args ocm.CreateManagedServiceArgs, after flag parsing
InitArgs(serviceName, clusterName) ==
    [ServiceName |-> serviceName, ClusterName |-> clusterName,
     AwsRoleARN |-> EmptyString, AwsSupportRoleARN |-> EmptyString,
     AwsControlPlaneRoleARN |-> EmptyString, AwsWorkerRoleARN |-> EmptyString,
     AwsAccountID |-> EmptyString, AwsRegion |-> EmptyString,
     AwsOperatorIamRoleList |-> << >>, Parameters |-> NilMap]

InitWith(versions) ==
    /\ command \in {"create", "list"}
    /\ pc = "NewClient"
    /\ exitStatus = -1
    /\ panicking = FALSE
    /\ account \in AccountIDs
    /\ version \in versions
    /\ ocmClient = "none"
    /\ reported = << >>
    /\ calls = << >>
    /\ roleARNs = << >>
    /\ roleARN = EmptyString
    /\ supportRoleARN = EmptyString
    /\ controlPlaneRoleARN = EmptyString
    /\ workerRoleARN = EmptyString
    /\ hasRoles = FALSE
    /\ rolePrefix = EmptyString
    /\ pendingRoles = {}
    /\ interactiveMode = FALSE
    /\ awsCreator = [AccountID |-> EmptyString]
    /\ operatorRolesPrefix = EmptyString
    /\ operatorIAMRoleList = << >>
    /\ validated = 0
    /\ addOnParameters = [isNil |-> TRUE, ids |-> << >>]
    /\ \E s \in ServiceNames, c \in ClusterNames :
           args = InitArgs(s, IF command = "create" THEN c ELSE EmptyString)
    /\ request = NoRequest
    /\ servicesList = << >>
    /\ table = << >>

Init == InitWith({HardCodedVersion})

\* os.Exit(code): the process ends at once, deferred calls do not run
osExit(code) ==
    /\ pc' = "exited"
    /\ exitStatus' = code
    /\ UNCHANGED panicking

\* a run-time panic: run() unwinds, which runs the deferred Close
panic ==
    /\ pc' = "Close"
    /\ panicking' = TRUE
    /\ UNCHANGED exitStatus

\* control moves on inside run()
goto(label) ==
    /\ pc' = label
    /\ UNCHANGED exitVars

(* ----------------------- create service: run() ------------------------ *)
\* lines 72-85: build the OCM client, register the deferred Close
NewClient ==
    /\ pc = "NewClient" /\ command = "create"
    /\ \E ok \in BOOLEAN :
        /\ calls' = Append(calls, Call("NewClient", EmptyString, ok))
        /\ IF ok
           THEN /\ ocmClient' = "open"
                /\ goto("FindInstallerRole")
                /\ UNCHANGED reported
           ELSE /\ reported' = Append(reported,
                        Errorf("Failed to create OCM connection", EmptyString))
                /\ osExit(1)
                /\ UNCHANGED ocmClient
    /\ UNCHANGED << envVars, roleVars, operatorVars, addOnParameters, args,
                    request, listVars >>

\* variant of chooseInstallerRole: the default prefix is given no priority
chooseFirstInstallerRole(list) ==
    IF Len(list) >= 1 THEN list[1] ELSE EmptyString

\* the installer role lines 108-126 choose from the list FindRoleARNs returned
chooseInstallerRole(list) ==
    IF Len(list) > 1
    THEN LastContaining(list,
             RoleNameFor(DefaultPrefix, AccountRoles[InstallerAccountRole].Name),
             list[1])
    ELSE IF Len(list) = 1 THEN list[1]
    ELSE EmptyString

\* lines 87-126: the AWS client, FindRoleARNs(installer) and the choice
FindInstallerRole ==
    /\ pc = "FindInstallerRole"
    /\ \/ /\ calls' = Append(calls, Call("FindRoleARNs", <<InstallerAccountRole>>, FALSE))
          /\ reported' = Append(reported,
                 Errorf("Failed to find role", AccountRoles[InstallerAccountRole].Name))
          /\ osExit(1)
          /\ UNCHANGED << roleARNs, roleARN >>
       \/ \E list \in SeqsUpTo(InstallerARNs(account), MaxARNs) :
          /\ calls' = Append(calls, Call("FindRoleARNs", <<InstallerAccountRole>>, TRUE))
          /\ roleARNs' = list
          /\ roleARN' = chooseInstallerRole(list)
          /\ reported' =
                 IF Len(list) > 1
                 THEN Append(reported,
                          Warnf("More than one role found", chooseInstallerRole(list)))
                 ELSE IF Len(list) = 1 THEN reported
                 ELSE Append(reported, Errorf("No account roles found", EmptyString))
          /\ goto("AccountRolePrefix")
    /\ UNCHANGED << envVars, ocmClient, supportRoleARN, controlPlaneRoleARN,
                    workerRoleARN, hasRoles, rolePrefix, pendingRoles,
                    interactiveMode, operatorVars, addOnParameters, args,
                    request, listVars >>


\* lines 128-137: the role prefix of the chosen installer role
AccountRolePrefix ==
    /\ pc = "AccountRolePrefix"
    /\ IF roleARN # EmptyString
       THEN LET r == getAccountRolePrefix(roleARN, AccountRoles[InstallerAccountRole])
            IN  IF r.panic
                THEN /\ panic
                     /\ UNCHANGED << reported, rolePrefix, hasRoles, pendingRoles >>
                ELSE IF r.err
                THEN /\ reported' = Append(reported,
                            Errorf("Failed to find prefix",
                                   AccountRoles[InstallerAccountRole].Name))
                     /\ osExit(1)
                     /\ UNCHANGED << rolePrefix, hasRoles, pendingRoles >>
                ELSE /\ rolePrefix' = r.rolePrefix
                     /\ hasRoles' = TRUE
                     /\ pendingRoles' = DependentRoleTypes
                     /\ goto("FindDependentRole")
                     /\ UNCHANGED reported
       ELSE /\ goto("CheckHasRoles")
            /\ UNCHANGED << reported, rolePrefix, hasRoles, pendingRoles >>
    /\ UNCHANGED << envVars, ocmClient, calls, roleARNs, roleARN, supportRoleARN,
                    controlPlaneRoleARN, workerRoleARN, interactiveMode,
                    operatorVars, addOnParameters, args, request, listVars >>

\* variant of selectDependentRole: the first ARN, whatever its prefix
selectFirstDependentRole(list, prefix, role) ==
    IF Len(list) >= 1 THEN list[1] ELSE EmptyString

\* the ARN lines 148-153 select from the list of a dependent category
selectDependentRole(list, prefix, role) ==
    LastContaining(list, RoleNameFor(prefix, role.Name), EmptyString)

\* variant of hasRolesAfter: a category without ARN leaves hasRoles as it was
hasRolesAfterNeverCleared(selectedARN, before) == before

\* lines 154-160: hasRoles after a category was looked up
hasRolesAfter(selectedARN, before) ==
    IF selectedARN = EmptyString THEN FALSE ELSE before

\* lines 138-174: one iteration of the range over aws.AccountRoles; a Go map
\* is ranged in no fixed order, and the installer entry is skipped
FindDependentRole ==
    /\ pc = "FindDependentRole"
    /\ \E roleType \in pendingRoles :
        \/ /\ calls' = Append(calls, Call("FindRoleARNs", <<roleType>>, FALSE))
           /\ reported' = Append(reported,
                  Errorf("Failed to find role", AccountRoles[roleType].Name))
           /\ osExit(1)
           /\ UNCHANGED << supportRoleARN, controlPlaneRoleARN, workerRoleARN,
                           hasRoles, pendingRoles, interactiveMode >>
        \/ \E list \in SeqsUpTo(DependentARNs(account, roleType), MaxARNs) :
           LET selectedARN == selectDependentRole(list, rolePrefix, AccountRoles[roleType])
           IN  /\ calls' = Append(calls, Call("FindRoleARNs", <<roleType>>, TRUE))
               /\ IF selectedARN = EmptyString
                  THEN /\ reported' = Append(reported,
                              Errorf("No account roles found for",
                                     AccountRoles[roleType].Name))
                       /\ interactiveMode' = TRUE
                  ELSE UNCHANGED << reported, interactiveMode >>
               /\ hasRoles' = hasRolesAfter(selectedARN, hasRoles)
               /\ supportRoleARN' =
                      IF roleType = SupportAccountRole
                      THEN selectedARN ELSE supportRoleARN
               /\ controlPlaneRoleARN' =
                      IF roleType = ControlPlaneAccountRole
                      THEN selectedARN ELSE controlPlaneRoleARN
               /\ workerRoleARN' =
                      IF roleType = WorkerAccountRole
                      THEN selectedARN ELSE workerRoleARN
               /\ pendingRoles' = pendingRoles \ {roleType}
               /\ goto(IF pendingRoles \ {roleType} = {}
                       THEN "CheckHasRoles" ELSE "FindDependentRole")
    /\ UNCHANGED << envVars, ocmClient, roleARNs, roleARN, rolePrefix,
                    operatorVars, addOnParameters, args, request, listVars >>

\* variant of rolesIncomplete: the check of line 176 never aborts
rolesIncompleteIgnored(h) == FALSE

\* line 176: if hasRoles == false
rolesIncomplete(h) == h = FALSE

\* lines 176-184: abort without all roles, else store the four in args
CheckHasRoles ==
    /\ pc = "CheckHasRoles"
    /\ IF rolesIncomplete(hasRoles)
       THEN /\ reported' = Append(reported,
                   Errorf("Please create the above roles to continue", EmptyString))
            /\ osExit(1)
            /\ UNCHANGED args
       ELSE /\ args' = [args EXCEPT !.AwsRoleARN = roleARN,
                                    !.AwsSupportRoleARN = supportRoleARN,
                                    !.AwsControlPlaneRoleARN = controlPlaneRoleARN,
                                    !.AwsWorkerRoleARN = workerRoleARN]
            /\ goto("GetCreator")
            /\ UNCHANGED reported
    /\ UNCHANGED << envVars, ocmClient, calls, roleVars, operatorVars,
                    addOnParameters, request, listVars >>

\* lines 187-191: the caller identity
GetCreator ==
    /\ pc = "GetCreator"
    /\ \E ok \in BOOLEAN :
        /\ calls' = Append(calls, Call("GetCreator", EmptyString, ok))
        /\ IF ok
           THEN /\ awsCreator' = [AccountID |-> account]
                /\ goto("OperatorRoles")
                /\ UNCHANGED reported
           ELSE /\ reported' = Append(reported,
                       Errorf("Unable to get IAM credentials", EmptyString))
                /\ osExit(1)
                /\ UNCHANGED awsCreator
    /\ UNCHANGED << envVars, ocmClient, roleVars, operatorRolesPrefix,
                    operatorIAMRoleList, validated, addOnParameters, args,
                    request, listVars >>

\* lines 193-213: the operator role list
OperatorRoles ==
    /\ pc = "OperatorRoles"
    /\ \E label \in Labels :
        /\ operatorRolesPrefix' = getRolePrefix(args.ClusterName, label)
        /\ IF \E i \in 1..Len(CredentialRequests) :
                  operatorCheckFails(CredentialRequests[i], version)
           THEN /\ reported' = Append(reported,
                       Errorf("Error validating operator role version", EmptyString))
                /\ osExit(1)
                /\ UNCHANGED operatorIAMRoleList
           ELSE /\ operatorIAMRoleList' =
                       buildOperatorIAMRoleList(CredentialRequests, version,
                           getRolePrefix(args.ClusterName, label), awsCreator)
                /\ goto("ValidateRoleName")
                /\ UNCHANGED reported
    /\ UNCHANGED << envVars, ocmClient, calls, roleVars, awsCreator, validated,
                    addOnParameters, args, request, listVars >>

\* variant of roleNameOf: the piece before the "/"
roleNameOfWrongPiece(roleArn) == SplitN2(roleArn, "/")[1]

\* name := strings.SplitN(role.RoleARN, "/", 2)[1]
roleNameOf(roleArn) == SplitN2(roleArn, "/")[2]

\* lines 216-223: one iteration of the name-availability loop
ValidateRoleName ==
    /\ pc = "ValidateRoleName"
    /\ validated < Len(operatorIAMRoleList)
    /\ \E ok \in BOOLEAN :
        /\ calls' = Append(calls,
               Call("ValidateRoleNameAvailable",
                    roleNameOf(operatorIAMRoleList[validated + 1].RoleARN), ok))
        /\ IF ok
           THEN /\ validated' = validated + 1
                /\ goto("ValidateRoleName")
                /\ UNCHANGED reported
           ELSE /\ reported' = Append(reported,
                       Errorf("Error validating role", EmptyString))
                /\ osExit(1)
                /\ UNCHANGED validated
    /\ UNCHANGED << envVars, ocmClient, roleVars, awsCreator, operatorRolesPrefix,
                    operatorIAMRoleList, addOnParameters, args, request, listVars >>

\* regions aws.GetRegion can return
Regions == { <<"r","1">> }

\* lines 225-253: store the operator roles and the account id, get the region
GetRegion ==
    /\ pc = "ValidateRoleName"
    /\ validated = Len(operatorIAMRoleList)
    /\ \E ok \in BOOLEAN :
        /\ calls' = Append(calls, Call("GetRegion", EmptyString, ok))
        /\ IF ok
           THEN /\ \E region \in Regions :
                    args' = [args EXCEPT
                                !.AwsOperatorIamRoleList = operatorIAMRoleList,
                                !.AwsAccountID = awsCreator.AccountID,
                                !.AwsRegion = region]
                /\ goto("GetAddOn")
                /\ UNCHANGED reported
           ELSE /\ args' = [args EXCEPT
                                !.AwsOperatorIamRoleList = operatorIAMRoleList,
                                !.AwsAccountID = awsCreator.AccountID,
                                !.AwsRegion = EmptyString]
                /\ reported' = Append(reported,
                       Errorf("Error getting region", EmptyString))
                /\ osExit(1)
    /\ UNCHANGED << envVars, ocmClient, roleVars, operatorVars, addOnParameters,
                    request, listVars >>


\* flag.Value.String() of cmd.Flags().Lookup(name): the flags are bound to
\* args.ServiceName and args.ClusterName (lines 53-65)
flagValue(name) ==
    IF name = "service" THEN args.ServiceName ELSE args.ClusterName

\* args.Parameters[key] = value: assignment to an entry of a nil map panics
mapAssign(st, key, value) ==
    IF st.params.isNil
    THEN [st EXCEPT !.panic = TRUE]
    ELSE [st EXCEPT !.params.kv =
              { kv \in st.params.kv : kv[1] # key } \cup { <<key, value>> }]

\* lines 262-268: addOnParameters.Each, in list order, until a panic
RECURSIVE copyParameters(_, _)
copyParameters(ids, st) ==
    IF ids = << >> \/ st.panic THEN st
    ELSE copyParameters(Tail(ids),
             IF Head(ids) \in FlagNames
             THEN mapAssign(st, Head(ids), flagValue(Head(ids)))
             ELSE st)

\* parameter lists an add-on can declare: none (nil) or a list of ids
AddOnSchemas ==
    { [isNil |-> TRUE, ids |-> << >>] }
        \cup { [isNil |-> FALSE, ids |-> l] : l \in SeqsUpTo(ParamIDs, MaxParams) }

\* lines 255-269: fetch the add-on and copy the flag values; a failed lookup
\* is reported and run() goes on with a nil add-on, whose Parameters() is nil
GetAddOn ==
    /\ pc = "GetAddOn"
    /\ \/ /\ calls' = Append(calls, Call("GetAddOn", args.ServiceName, FALSE))
          /\ reported' = Append(reported,
                 Errorf("Failed to process service parameters", EmptyString))
          /\ addOnParameters' = [isNil |-> TRUE, ids |-> << >>]
          /\ goto("CreateManagedService")
          /\ UNCHANGED args
       \/ \E schema \in AddOnSchemas :
          LET st == copyParameters(schema.ids,
                        [panic |-> FALSE, params |-> args.Parameters])
          IN  /\ calls' = Append(calls, Call("GetAddOn", args.ServiceName, TRUE))
              /\ addOnParameters' = schema
              /\ args' = [args EXCEPT !.Parameters = st.params]
              /\ IF st.panic THEN panic ELSE goto("CreateManagedService")
              /\ UNCHANGED reported
    /\ UNCHANGED << envVars, ocmClient, roleVars, operatorVars, request, listVars >>

\* lines 271-287: send the request
CreateManagedService ==
    /\ pc = "CreateManagedService"
    /\ request' = [sent |-> TRUE, args |-> args]
    /\ \E ok \in BOOLEAN :
        /\ calls' = Append(calls, Call("CreateManagedService", args.ServiceName, ok))
        /\ IF ok
           THEN /\ goto("Close")
                /\ UNCHANGED reported
           ELSE /\ reported' = Append(reported,
                       Errorf("Failed to create managed service", EmptyString))
                /\ osExit(1)
    /\ UNCHANGED << envVars, ocmClient, roleVars, operatorVars, addOnParameters,
                    args, listVars >>

\* the deferred function of a handler (lines 80-85 and 376-381): it runs when
\* run() returns or panics; the process then ends with status 0, or 2 after
\* a panic
deferredClose ==
    /\ \E ok \in BOOLEAN :
        /\ calls' = Append(calls, Call("Close", EmptyString, ok))
        /\ reported' = IF ok THEN reported
                       ELSE Append(reported,
                                Errorf("Failed to close OCM connection", EmptyString))
    /\ ocmClient' = "closed"
    /\ pc' = "exited"
    /\ exitStatus' = IF panicking THEN 2 ELSE 0
    /\ UNCHANGED << panicking, envVars, roleVars, operatorVars, addOnParameters,
                    args, request, listVars >>

\* lines 80-85 at the end of create service
Close ==
    /\ pc = "Close"
    /\ deferredClose

(* ------------------------ list services: run() ------------------------ *)
\* lines 368-381: build the OCM client, register the deferred Close
ListNewClient ==
    /\ pc = "NewClient" /\ command = "list"
    /\ \E ok \in BOOLEAN :
        /\ calls' = Append(calls, Call("NewClient", EmptyString, ok))
        /\ IF ok
           THEN /\ ocmClient' = "open"
                /\ goto("ListManagedServices")
                /\ UNCHANGED reported
           ELSE /\ reported' = Append(reported,
                       Errorf("Failed to create OCM connection", EmptyString))
                /\ osExit(1)
                /\ UNCHANGED ocmClient
    /\ UNCHANGED << envVars, roleVars, operatorVars, addOnParameters, args,
                    request, listVars >>

\* lines 383-395: fetch the records and print the table
ListManagedServices ==
    /\ pc = "ListManagedServices"
    /\ \/ /\ calls' = Append(calls, Call("ListManagedServices", EmptyString, FALSE))
          /\ reported' = Append(reported,
                 Errorf("Failed to retrieve list of managed services", EmptyString))
          /\ osExit(1)
          /\ UNCHANGED listVars
       \/ \E list \in SeqsUpTo(ServiceIDs, MaxServices) :
          /\ Len(list) <= ListLimit
          /\ calls' = Append(calls, Call("ListManagedServices", EmptyString, TRUE))
          /\ servicesList' = list
          /\ table' = << <<"ID", "SERVICE", "STATE">> >>
                        \o [i \in 1..Len(list) |-> <<list[i], "service", "state">>]
          /\ goto("ListClose")
          /\ UNCHANGED reported
    /\ UNCHANGED << envVars, ocmClient, roleVars, operatorVars, addOnParameters,
                    args, request >>

\* lines 376-381 at the end of list services
ListClose ==
    /\ pc = "ListClose"
    /\ deferredClose

(* --------------------------- specifications --------------------------- *)
Next ==
    \/ NewClient
    \/ FindInstallerRole
    \/ AccountRolePrefix
    \/ FindDependentRole
    \/ CheckHasRoles
    \/ GetCreator
    \/ OperatorRoles
    \/ ValidateRoleName
    \/ GetRegion
    \/ GetAddOn
    \/ CreateManagedService
    \/ Close
    \/ ListNewClient
    \/ ListManagedServices
    \/ ListClose

\* run() as the repository has it: the target version is "4.9"
Spec == Init /\ [][Next]_vars

\* run() with the literal of line 91 drawn from TargetVersions
InitVersions ==
    /\ InitWith(TargetVersions)
    /\ Len(args.ClusterName) <= 1
SpecVersions == InitVersions /\ [][Next]_vars


(* ------------------------ vocabulary of the claims -------------------- *)
Range(f) == { f[i] : i \in DOMAIN f }

\* the call was made, with this outcome
Made(name, arg, ok) == \E i \in 1..Len(calls) : calls[i] = Call(name, arg, ok)

\* some call of that name was made
MadeAny(name) == \E i \in 1..Len(calls) : calls[i].name = name

\* an error with that message was reported
ErrorReported(msg, arg) == \E i \in 1..Len(reported) : reported[i] = Errorf(msg, arg)

Exited == pc = "exited"

\* the ARN the local variables hold for a dependent category
DependentARN(t) ==
    CASE t = SupportAccountRole -> supportRoleARN
      [] t = ControlPlaneAccountRole -> controlPlaneRoleARN
      [] t = WorkerAccountRole -> workerRoleARN

\* the text of an ARN after its first "/"
NameSegment(a) == AfterNth(a, "/", 1)

DefaultInstallerName ==
    DefaultPrefix \o <<"-">> \o <<"I","n","s","t","a","l","l","e","r">>
        \o <<"-","R","o","l","e">>

(* ------------------------------- C1 ----------------------------------- *)
\* C1: whenever the create request has been issued, the four account-role
\* ARNs it carries are non-empty; and while one of the four is unresolved
\* the run is still resolving roles or has aborted with status 1, and no
\* create request was issued.
C1_RolesResolvedBeforeCreate ==
    /\ request.sent =>
          /\ request.args.AwsRoleARN # EmptyString
          /\ request.args.AwsSupportRoleARN # EmptyString
          /\ request.args.AwsControlPlaneRoleARN # EmptyString
          /\ request.args.AwsWorkerRoleARN # EmptyString
    /\ ( /\ command = "create"
         /\ \/ roleARN = EmptyString
            \/ \E t \in DependentRoleTypes : DependentARN(t) = EmptyString )
       => /\ ~request.sent
          /\ pc \in {"NewClient", "FindInstallerRole", "AccountRolePrefix",
                     "FindDependentRole", "CheckHasRoles", "exited"}
          /\ Exited => exitStatus = 1

\* the create request was issued after a choice among several installer roles
C1_Witness ==
    /\ request.sent
    /\ Len(roleARNs) > 1
    /\ request.args.AwsWorkerRoleARN # EmptyString

(* ------------------------------- C2 ----------------------------------- *)
\* an error other than that of the deferred close was reported
StepErrorReported ==
    \E i \in 1..Len(reported) :
        /\ reported[i].level = "error"
        /\ reported[i].msg # "Failed to close OCM connection"

\* C2: in create service every failure of a step is fatal: a step's call
\* that returned an error is the last call the run makes (no later step
\* runs, so no create request follows a failed add-on lookup), an error was
\* reported for it, and the process has ended with status 1; the process
\* ends with status 0 only when no step reported an error.
C2_EveryFailureFatal ==
    command = "create" =>
        /\ \A i \in 1..Len(calls) :
              (calls[i].name # "Close" /\ ~calls[i].ok) =>
                  /\ i = Len(calls)
                  /\ StepErrorReported
                  /\ Exited /\ exitStatus = 1
        /\ (Exited /\ exitStatus = 0) => ~StepErrorReported

(* ------------------------------- C3 ----------------------------------- *)
\* C3: on every terminating path taken after the OCM connection was opened,
\* the connection is closed before the process ends, and a failed close is
\* reported without changing the exit status.
C3_ClosedOnEveryExit ==
    (Exited /\ Made("NewClient", EmptyString, TRUE)) =>
        /\ ocmClient = "closed"
        /\ MadeAny("Close")
        /\ Made("Close", EmptyString, FALSE) =>
               ErrorReported("Failed to close OCM connection", EmptyString)

(* ------------------------------- C4 ----------------------------------- *)
InstallerLookupEmpty ==
    /\ Made("FindRoleARNs", <<InstallerAccountRole>>, TRUE)
    /\ roleARNs = << >>

\* C4: when the installer lookup returned no ARN, the error asking for the
\* account roles is reported, the installer lookup is the last AWS or remote
\* call of the run, no create request is issued, and the process ends with
\* status 1.
C4_NoInstallerRoleAborts ==
    InstallerLookupEmpty =>
        /\ ErrorReported("No account roles found", EmptyString)
        /\ calls[Len(calls)] = Call("FindRoleARNs", <<InstallerAccountRole>>, TRUE)
        /\ \A t \in DependentRoleTypes :
               \A i \in 1..Len(calls) : calls[i].arg # <<t>>
        /\ ~request.sent
        /\ pc \in {"AccountRolePrefix", "CheckHasRoles", "exited"}
        /\ Exited => exitStatus = 1

\* the run ended after an empty installer lookup
C4_Witness ==
    /\ InstallerLookupEmpty
    /\ Exited
    /\ ErrorReported("Please create the above roles to continue", EmptyString)

(* ------------------------------- C5 ----------------------------------- *)
\* C5: after a successful installer lookup: of more than one ARN, when one
\* contains <DefaultPrefix>-Installer-Role the selected ARN is one of the
\* list that contains it, and is that one wherever it stands when it is the
\* only such; when none contains it the first is selected; in both cases
\* the warning names the selected ARN; a single ARN is used as it is.
C5_InstallerRoleChoice ==
    Made("FindRoleARNs", <<InstallerAccountRole>>, TRUE) =>
        LET hits == { i \in 1..Len(roleARNs) :
                        Contains(roleARNs[i], DefaultInstallerName) }
        IN  /\ (Len(roleARNs) > 1 /\ hits # {}) =>
                  /\ roleARN \in { roleARNs[i] : i \in hits }
                  /\ Cardinality(hits) = 1 => \A i \in hits : roleARN = roleARNs[i]
            /\ (Len(roleARNs) > 1 /\ hits = {}) =>
                  /\ roleARN = roleARNs[1]
                  /\ reported[1] = Warnf("More than one role found", roleARNs[1])
            /\ Len(roleARNs) > 1 =>
                  reported[1] = Warnf("More than one role found", roleARN)
            /\ Len(roleARNs) = 1 => roleARN = roleARNs[1]

\* the default-prefixed role stood first, before another role, and was chosen
C5_Witness ==
    /\ Made("FindRoleARNs", <<InstallerAccountRole>>, TRUE)
    /\ Len(roleARNs) > 1
    /\ Contains(roleARNs[1], DefaultInstallerName)
    /\ ~Contains(roleARNs[2], DefaultInstallerName)
    /\ roleARN = roleARNs[1]


(* ------------------------------- C6 ----------------------------------- *)
\* the lookup of a dependent category succeeded and held no ARN of the prefix
NoMatch(t) ==
    /\ Made("FindRoleARNs", <<t>>, TRUE)
    /\ DependentARN(t) = EmptyString

LookupFailed == \E t \in DependentRoleTypes : Made("FindRoleARNs", <<t>>, FALSE)

\* rolePrefix is the installer role's name without its -Installer-Role suffix
PrefixIsStripped ==
    LET name == NameSegment(roleARN)
        suffix == <<"-","I","n","s","t","a","l","l","e","r","-","R","o","l","e">>
    IN  \/ rolePrefix \o suffix = name
        \/ rolePrefix = name /\ ~HasSuffix(name, suffix)

\* every resolved dependent category holds an ARN containing
\* <prefix>-<RoleName>-Role, and no run goes past role resolution with a
\* category that had no such ARN
DependentsAnchored ==
    (command = "create" /\ roleARN # EmptyString
        /\ pc \notin {"NewClient", "FindInstallerRole", "AccountRolePrefix"}) =>
        /\ PrefixIsStripped
        /\ \A t \in DependentRoleTypes :
              /\ DependentARN(t) # EmptyString =>
                    Contains(DependentARN(t),
                        rolePrefix \o <<"-">> \o AccountRoles[t].Name
                            \o <<"-","R","o","l","e">>)
              /\ NoMatch(t) =>
                    /\ pc \in {"FindDependentRole", "CheckHasRoles", "exited"}
                    /\ ~request.sent

\* what holds of a run that ended with a category without ARN
AllFailuresReported ==
    /\ \A t \in DependentRoleTypes :
          \E i \in 1..Len(calls) : calls[i].name = "FindRoleARNs" /\ calls[i].arg = <<t>>
    /\ \A t \in DependentRoleTypes :
          NoMatch(t) => ErrorReported("No account roles found for", AccountRoles[t].Name)
    /\ reported[Len(reported)] =
          Errorf("Please create the above roles to continue", EmptyString)
    /\ exitStatus = 1
    /\ ~request.sent

\* C6 as stated: the dependent categories resolve to ARNs containing
\* <prefix>-<RoleName>-Role; when one or more of the three has no such ARN,
\* the lookup has run for all three and a failure was reported for each
\* unresolved one before the command ended with status 1, without a create
\* request.
C6_AllDependentsLookedUp ==
    /\ DependentsAnchored
    /\ (Exited /\ \E t \in DependentRoleTypes : NoMatch(t)) => AllFailuresReported

\* C6 amended: the same, for the runs in which no dependent lookup itself
\* returns an error; a lookup that returns an error is the last call of the
\* run, which ends at once with status 1 and without a create request.
C6_AllDependentsLookedUpUnlessLookupFails ==
    /\ DependentsAnchored
    /\ (Exited /\ ~LookupFailed /\ \E t \in DependentRoleTypes : NoMatch(t))
          => AllFailuresReported
    /\ \A t \in DependentRoleTypes :
          Made("FindRoleARNs", <<t>>, FALSE) =>
              /\ calls[Len(calls)] = Call("FindRoleARNs", <<t>>, FALSE)
              /\ Exited /\ exitStatus = 1
              /\ ~request.sent

\* two categories had no ARN, the third was resolved, and the run ended
C6_Witness ==
    /\ Exited
    /\ ~LookupFailed
    /\ NoMatch(SupportAccountRole)
    /\ NoMatch(ControlPlaneAccountRole)
    /\ workerRoleARN # EmptyString
    /\ rolePrefix = <<"x">>

(* ------------------------------- C7 ----------------------------------- *)
\* the target version is below the operator's minimum version
BelowMinimum(operator) ==
    /\ operator.MinVersion # EmptyString
    /\ \/ version[1] < operator.MinVersion[1]
       \/ /\ version[1] = operator.MinVersion[1]
          /\ version[2] < operator.MinVersion[2]

FullRoleName(e) ==
    operatorRolesPrefix \o <<"-">> \o e.Namespace \o <<"-">> \o e.Name

\* C8: every entry of the operator role list has the ARN
\* arn:aws:iam::<account-id>:role/<name>, where <name> is
\* <prefix>-<namespace>-<name> when that has at most 64 characters and its
\* first 64 characters when it is longer; no name segment exceeds 64.
C8_OperatorRoleArn ==
    /\ \A k \in 1..Len(operatorIAMRoleList) :
          LET e == operatorIAMRoleList[k]
              full == FullRoleName(e)
              name == NameSegment(e.RoleARN)
          IN  /\ \E i \in 1..Len(CredentialRequests) :
                    /\ e.Name = CredentialRequests[i].Name
                    /\ e.Namespace = CredentialRequests[i].Namespace
              /\ e.RoleARN = <<"a","r","n",":","a","w","s",":","i","a","m",":",":">>
                                \o awsCreator.AccountID
                                \o <<":","r","o","l","e","/">> \o name
              /\ Len(name) <= 64
              /\ Len(full) <= 64 => name = full
              /\ Len(full) > 64 =>
                    /\ Len(name) = 64
                    /\ \A c \in 1..64 : name[c] = full[c]
    /\ request.sent => request.args.AwsOperatorIamRoleList = operatorIAMRoleList

\* a request with a role name of exactly 64 characters kept whole and a
\* longer one cut
C8_Witness ==
    /\ request.sent
    /\ \E k \in 1..Len(operatorIAMRoleList) :
          /\ Len(FullRoleName(operatorIAMRoleList[k])) = 64
          /\ NameSegment(operatorIAMRoleList[k].RoleARN)
                = FullRoleName(operatorIAMRoleList[k])
    /\ \E k \in 1..Len(operatorIAMRoleList) :
          /\ Len(FullRoleName(operatorIAMRoleList[k])) > 64
          /\ Len(NameSegment(operatorIAMRoleList[k].RoleARN)) = 64

(* ------------------------------- C9 ----------------------------------- *)
\* C9: when the create request is issued, the role name of every entry of
\* its operator role list was passed to the name-availability check, which
\* found it available, before the create call; a failed check is the last
\* call of the run, which reports the error and ends with status 1, with no
\* operator role list stored in args and no create request.
C9_NamesValidatedBeforeCreate ==
    /\ request.sent =>
          \A k \in 1..Len(request.args.AwsOperatorIamRoleList) :
              \E i \in 1..Len(calls) :
                  /\ calls[i] = Call("ValidateRoleNameAvailable",
                         NameSegment(request.args.AwsOperatorIamRoleList[k].RoleARN),
                         TRUE)
                  /\ \A j \in 1..Len(calls) :
                        calls[j].name = "CreateManagedService" => i < j
    /\ \A i \in 1..Len(calls) :
          (calls[i].name = "ValidateRoleNameAvailable" /\ ~calls[i].ok) =>
              /\ i = Len(calls)
              /\ ErrorReported("Error validating role", EmptyString)
              /\ Exited /\ exitStatus = 1
              /\ args.AwsOperatorIamRoleList = << >>
              /\ ~request.sent

\* a request carrying two validated operator roles
C9_Witness ==
    /\ request.sent
    /\ Len(request.args.AwsOperatorIamRoleList) >= 2
    /\ Made("CreateManagedService", args.ServiceName, TRUE)

(* ------------------------------- C10 ---------------------------------- *)
\* C10: after the parameter step on a fetched schema, the step has not
\* failed, the parameter map holds the flag's value under the id of every
\* parameter whose id names a flag, and it holds no other key.
C10_FlagValuesCopied ==
    (Made("GetAddOn", args.ServiceName, TRUE) /\ ~addOnParameters.isNil) =>
        LET matching == Range(addOnParameters.ids) \cap FlagNames
        IN  /\ ~panicking
            /\ exitStatus # 2
            /\ \A id \in matching :
                  <<id, IF id = "service" THEN args.ServiceName
                        ELSE args.ClusterName>> \in args.Parameters.kv
            /\ \A kv \in args.Parameters.kv : kv[1] \in matching

====
